---- MODULE Spec2Model ----
(***************************************************************************)
(* Card inventory: boxes -> rows -> sections -> card records.              *)
(* The store and insert_card / update_card_quantity follow                 *)
(* src/inv_manager.py; the order matching (find_card_location,             *)
(* remove_cards, match_order_from_csv), the second insert_card and         *)
(* calculate_box_location follow src/mtg_inventory_system.py.  Both files  *)
(* work on the same tables (boxes, rows, sections, cards).                 *)
(* Spec runs whole operations one after the other; SpecAddr is            *)
(* calculate_box_location alone; SpecScan takes match_order_from_csv call  *)
(* by call; SpecConc interleaves the steps of insert_card of two           *)
(* processes.                                                              *)
(***************************************************************************)
EXTENDS Integers, Sequences, FiniteSets, TLC

VARIABLES
    boxes,          \* the boxes table with its rows, sections and cards, in id order
    orphan_rows,    \* Row objects built by locate_insertion_point that no box accepted
    next_card_id,   \* next primary key of the cards table
    op,             \* the last operation: its arguments and what it did
    nops,           \* number of operations run so far
    total_boxes,    \* argument of calculate_box_location
    location,       \* result of calculate_box_location, <<>> before the call
    pending,        \* to_remove_list of a match_order_from_csv that is under way
    sessions        \* the insert_card under way in each concurrent process

vars == <<boxes, orphan_rows, next_card_id, op, nops, total_boxes, location,
          pending, sessions>>

----------------------------------------------------------------------------
(* Column defaults of src/inv_manager.py *)

Box_max_rows == 5
Row_max_sections == 10
Section_max_cards == 12
Card_capacity == 12

(* Bounds of the model *)

MaxOps == 2
MaxOrdinal == 60

TcgIds == {1001, 1002}
Quantities == {-3, 0, 3, 12, 15}
Additional == {1, 12}
Needed == {5, 12, 20}
PreFilled == {49, 50}

----------------------------------------------------------------------------
(* Section *)

NewSection ==
    [card_count |-> 0, max_cards |-> Section_max_cards,
     current_quantity |-> 0, cards |-> <<>>]

can_add_card_unchecked(section, quantity) == TRUE

can_add_card(section, quantity) ==
    (section.card_count + quantity) <= section.max_cards

add_card(section, card) ==
    IF can_add_card(section, card.quantity)
    THEN [ok |-> TRUE,
          section |-> [section EXCEPT !.cards = Append(@, card),
                                      !.card_count = @ + card.quantity]]
    ELSE [ok |-> FALSE, section |-> section]

RECURSIVE SumQuantity(_)
SumQuantity(cards) ==
    IF cards = <<>> THEN 0
    ELSE Head(cards).quantity + SumQuantity(Tail(cards))

actual_quantity(section) == SumQuantity(section.cards)

(* Row *)

NewRow == [section_count |-> 0, max_sections |-> Row_max_sections, sections |-> <<>>]

add_section(row, section) ==
    IF row.section_count < row.max_sections
    THEN [row EXCEPT !.sections = Append(@, section), !.section_count = @ + 1]
    ELSE row

RECURSIVE AddSections(_, _)
AddSections(row, n) ==
    IF n = 0 THEN row ELSE AddSections(add_section(row, NewSection), n - 1)

(* Box *)

add_row_unchecked(box, row) ==
    [ok |-> TRUE,
     box |-> [box EXCEPT !.rows = Append(@, row), !.row_count = @ + 1]]

add_row(box, row) ==
    IF box.row_count < box.max_rows
    THEN [ok |-> TRUE,
          box |-> [box EXCEPT !.rows = Append(@, row), !.row_count = @ + 1]]
    ELSE [ok |-> FALSE, box |-> box]

\* the loop "for _ in range(n): new_row = Row(); box.add_row(new_row);
\* for _ in range(m): new_row.add_section(Section())": the box it leaves and
\* the rows the box did not take
RECURSIVE AddRows(_, _, _, _)
AddRows(box, rejected, n, m) ==
    IF n = 0 THEN [box |-> box, rejected |-> rejected]
    ELSE LET new_row == AddSections(NewRow, m)
             r == add_row(box, new_row)
         IN  AddRows(r.box,
                     IF r.ok THEN rejected ELSE Append(rejected, new_row),
                     n - 1, m)

Box__init__ ==
    AddRows([row_count |-> 0, max_rows |-> Box_max_rows, rows |-> <<>>],
            <<>>, Box_max_rows, Row_max_sections).box

----------------------------------------------------------------------------
(* Primary keys: the tables are filled in list order, so a row or a section *)
(* gets the number of rows or sections flushed before it, plus one.         *)

RECURSIVE SectionsOfRows(_)
SectionsOfRows(rows) ==
    IF rows = <<>> THEN <<>>
    ELSE Head(rows).sections \o SectionsOfRows(Tail(rows))

\* the sections table, in id order
RECURSIVE SectionsOfBoxes(_)
SectionsOfBoxes(bxs) ==
    IF bxs = <<>> THEN <<>>
    ELSE SectionsOfRows(Head(bxs).rows) \o SectionsOfBoxes(Tail(bxs))

RECURSIVE RowsInBoxes(_)
RowsInBoxes(bxs) ==
    IF bxs = <<>> THEN 0 ELSE Len(Head(bxs).rows) + RowsInBoxes(Tail(bxs))

RowId(bxs, b, r) == RowsInBoxes(SubSeq(bxs, 1, b - 1)) + r

SectionId(bxs, b, r, s) ==
    Len(SectionsOfBoxes(SubSeq(bxs, 1, b - 1)))
        + Len(SectionsOfRows(SubSeq(bxs[b].rows, 1, r - 1))) + s

\* for every section, in id order, the ids of its box and of its row
RECURSIVE ParentsInRows(_, _, _)
ParentsInRows(rows, box_id, row_id) ==
    IF rows = <<>> THEN <<>>
    ELSE [s \in 1..Len(Head(rows).sections) |-> [box |-> box_id, row |-> row_id]]
             \o ParentsInRows(Tail(rows), box_id, row_id + 1)

RECURSIVE ParentsInBoxes(_, _, _)
ParentsInBoxes(bxs, box_id, row_id) ==
    IF bxs = <<>> THEN <<>>
    ELSE ParentsInRows(Head(bxs).rows, box_id, row_id)
             \o ParentsInBoxes(Tail(bxs), box_id + 1, row_id + Len(Head(bxs).rows))

SectionParents(bxs) == ParentsInBoxes(bxs, 1, 1)

RECURSIVE CardsOfSections(_)
CardsOfSections(sections) ==
    IF sections = <<>> THEN <<>>
    ELSE Head(sections).cards \o CardsOfSections(Tail(sections))

RECURSIVE CardsOfRows(_)
CardsOfRows(rows) ==
    IF rows = <<>> THEN <<>>
    ELSE CardsOfSections(Head(rows).sections) \o CardsOfRows(Tail(rows))

\* the card records of the store, box by box, row by row, section by section
RECURSIVE AllCards(_)
AllCards(bxs) ==
    IF bxs = <<>> THEN <<>>
    ELSE CardsOfRows(Head(bxs).rows) \o AllCards(Tail(bxs))

RECURSIVE SumOfSeq(_)
SumOfSeq(numbers) ==
    IF numbers = <<>> THEN 0 ELSE Head(numbers) + SumOfSeq(Tail(numbers))

\* total stored quantity of one item, added up section by section, row by
\* row, box by box
Stock(bxs, tcg_id) ==
    SumOfSeq([b \in 1..Len(bxs) |->
        SumOfSeq([r \in 1..Len(bxs[b].rows) |->
            SumOfSeq([s \in 1..Len(bxs[b].rows[r].sections) |->
                SumQuantity(SelectSeq(bxs[b].rows[r].sections[s].cards,
                                      LAMBDA c : c.tcg_id = tcg_id))])])])

----------------------------------------------------------------------------
(* inv_manager.py: locate_insertion_point and insert_card *)

\* a search that takes any section with room for a single card
OpenSections_room_for_one(box) ==
    UNION { { <<r, s>> : s \in { s \in 1..Len(box.rows[r].sections)
                                 : can_add_card(box.rows[r].sections[s], 1) } }
            : r \in 1..Len(box.rows) }

\* the (row, section) positions of a box whose section passes can_add_card(12)
OpenSections(box) ==
    UNION { { <<r, s>> : s \in { s \in 1..Len(box.rows[r].sections)
                                 : can_add_card(box.rows[r].sections[s], 12) } }
            : r \in 1..Len(box.rows) }

FirstOpen(box) ==
    CHOOSE p \in OpenSections(box) :
        \A q \in OpenSections(box) :
            p[1] < q[1] \/ (p[1] = q[1] /\ p[2] <= q[2])

\* returns the boxes table after the call, the Row objects left without a
\* box, and the position <<box, row, section>> of the section returned
locate_insertion_point(bxs) ==
    LET with_box == IF bxs = <<>> THEN <<Box__init__>> ELSE bxs
        last == Len(with_box)
    IN  IF OpenSections(with_box[last]) # {}
        THEN [boxes |-> with_box, orphans |-> <<>>,
              path |-> <<last>> \o FirstOpen(with_box[last])]
        ELSE LET built == AddRows(Box__init__, <<>>, 5, 10)
             IN  [boxes |-> Append(with_box, built.box),
                  orphans |-> built.rejected,
                  path |-> <<last + 1, 1, 1>>]

\* card_name and set_name are carried into the record unchanged and decide
\* nothing; commit_ok is whether the second session.commit() succeeds
insert_card(st, tcg_id, quantity, commit_ok) ==
    LET loc == locate_insertion_point(st.boxes)
        b == loc.path[1]
        r == loc.path[2]
        s == loc.path[3]
        section == loc.boxes[b].rows[r].sections[s]
        new_card == [id |-> st.next_card_id,
                     section_id |-> SectionId(loc.boxes, b, r, s),
                     tcg_id |-> tcg_id, quantity |-> quantity,
                     capacity |-> Card_capacity]
        added == add_card(section, new_card)
        committed == [added.section EXCEPT !.current_quantity =
                          IF commit_ok THEN @ + quantity ELSE @]
    IN  IF added.ok
        THEN [boxes |-> [loc.boxes EXCEPT ![b].rows[r].sections[s] = committed],
              orphan_rows |-> st.orphan_rows \o loc.orphans,
              next_card_id |-> st.next_card_id + 1,
              ok |-> TRUE]
        ELSE [boxes |-> loc.boxes,
              orphan_rows |-> st.orphan_rows \o loc.orphans,
              next_card_id |-> st.next_card_id,
              ok |-> FALSE]

(* inv_manager.py: update_card_quantity *)

\* what a Card object of inv_manager.py has: its columns and its relationship
CardAttributes ==
    {"id", "section_id", "tcg_id", "card_name", "set_name", "quantity",
     "capacity", "section"}

\* session.query(Card).filter_by(tcg_id=tcg_id)
CardsOf(bxs, tcg_id) == SelectSeq(AllCards(bxs), LAMBDA c : c.tcg_id = tcg_id)

\* the call reads existing_card.max_quantity before it changes anything, and
\* a Card has no such attribute: with a record found it ends in AttributeError
update_card_quantity(st, tcg_id, additional_quantity) ==
    IF CardsOf(st.boxes, tcg_id) = <<>>
    THEN [boxes |-> st.boxes, result |-> "not found"]
    ELSE IF "max_quantity" \notin CardAttributes
         THEN [boxes |-> st.boxes, result |-> "AttributeError"]
         ELSE [boxes |-> st.boxes, result |-> "ok"]

----------------------------------------------------------------------------
(* mtg_inventory_system.py *)

\* what the Section class of mtg_inventory_system.py has
MtgSectionAttributes == {"id", "row_id", "card_count", "max_card_quantity", "row"}

\* find_available_section reads Section.current_quantity
find_available_section(bxs) ==
    IF "current_quantity" \notin MtgSectionAttributes
    THEN [raised |-> "AttributeError"]
    ELSE [raised |-> ""]

\* insert_card calls find_available_section first; the exception leaves it
\* before add_card_to_section, create_storage_object or Box() run
mtg_insert_card(bxs, tcg_id, quantity) ==
    IF find_available_section(bxs).raised # ""
    THEN [boxes |-> bxs, result |-> find_available_section(bxs).raised]
    ELSE [boxes |-> bxs, result |-> "ok"]

calculate_box_location_shelf_as_rack(n) ==
    LET boxes_per_column == 3
        columns_per_shelf == 4
        shelves_per_rack == 3
        boxes_per_shelf == boxes_per_column * columns_per_shelf
        boxes_per_rack == boxes_per_shelf * shelves_per_rack
    IN  << (n \div boxes_per_shelf) + 1,
           ((n % boxes_per_shelf) \div boxes_per_shelf) + 1,
           (((n % boxes_per_rack) % boxes_per_shelf) \div boxes_per_column) + 1,
           (((n % boxes_per_rack) % boxes_per_shelf) % boxes_per_column) + 1 >>

calculate_box_location_column_by_columns(n) ==
    LET boxes_per_column == 3
        columns_per_shelf == 4
        shelves_per_rack == 3
        boxes_per_shelf == boxes_per_column * columns_per_shelf
        boxes_per_rack == boxes_per_shelf * shelves_per_rack
    IN  << (n \div boxes_per_rack) + 1,
           ((n % boxes_per_rack) \div boxes_per_shelf) + 1,
           (((n % boxes_per_rack) % boxes_per_shelf) \div columns_per_shelf) + 1,
           (((n % boxes_per_rack) % boxes_per_shelf) % boxes_per_column) + 1 >>

\* <<rack_number, shelf_number, column_number, box_number>>
calculate_box_location(n) ==
    LET boxes_per_column == 3
        columns_per_shelf == 4
        shelves_per_rack == 3
        boxes_per_shelf == boxes_per_column * columns_per_shelf
        boxes_per_rack == boxes_per_shelf * shelves_per_rack
    IN  << (n \div boxes_per_rack) + 1,
           ((n % boxes_per_rack) \div boxes_per_shelf) + 1,
           (((n % boxes_per_rack) % boxes_per_shelf) \div boxes_per_column) + 1,
           (((n % boxes_per_rack) % boxes_per_shelf) % boxes_per_column) + 1 >>

\* number of entities the query of find_card_location selects per result row
QueryEntities == 4
\* number of names the for statement of find_card_location unpacks a row into
UnpackTargets == 5

\* the join Box.id == Row.box_id, Row.id == Section.row_id,
\* Section.id == Card.id, Card.tcg_id == tcg_id: one result row per matching
\* card whose id is also the id of a section
query_result(bxs, tcg_id) ==
    LET parents == SectionParents(bxs)
        joined == SelectSeq(CardsOf(bxs, tcg_id),
                            LAMBDA c : c.id \in 1..Len(parents))
    IN  [i \in 1..Len(joined) |->
            [box |-> parents[joined[i].id].box,
             row |-> parents[joined[i].id].row,
             section |-> joined[i].id,
             card |-> joined[i]]]

\* the loop body of find_card_location over the result rows left
RECURSIVE Collect(_, _, _, _, _)
Collect(rows, needed_quantity, total_cards_collected, locations, cards_to_remove) ==
    IF rows = <<>> \/ total_cards_collected >= needed_quantity
    THEN [raised |-> "", locations |-> locations, cards_to_remove |-> cards_to_remove]
    ELSE LET row == Head(rows)
             location_str == <<row.box, row.row, row.section, row.card.id>>
             known == \E i \in 1..Len(locations) : locations[i].Location = location_str
             locs == IF known THEN locations
                     ELSE Append(locations, [Location |-> location_str, CardCount |-> 0])
             here == IF row.card.quantity < needed_quantity - total_cards_collected
                     THEN row.card.quantity
                     ELSE needed_quantity - total_cards_collected
             counted == [i \in 1..Len(locs) |->
                            IF locs[i].Location = location_str
                            THEN [locs[i] EXCEPT !.CardCount = @ + here]
                            ELSE locs[i]]
         IN  Collect(Tail(rows), needed_quantity, total_cards_collected + here,
                     counted,
                     Append(cards_to_remove,
                            [card |-> row.card, quantity_to_remove |-> here]))

\* a scan that takes what it collects out of the records while it scans
find_card_location_decrementing(bxs, tcg_id, needed_quantity) ==
    LET taken(card) == IF card.tcg_id = tcg_id
                       THEN [card EXCEPT !.quantity = 0] ELSE card
        scanned(section) ==
            [section EXCEPT !.cards = [c \in 1..Len(section.cards) |->
                                          taken(section.cards[c])]]
        in_row(row) ==
            [row EXCEPT !.sections = [s \in 1..Len(row.sections) |->
                                         scanned(row.sections[s])]]
        in_box(box) ==
            [box EXCEPT !.rows = [r \in 1..Len(box.rows) |-> in_row(box.rows[r])]]
    IN  [raised |-> "", locations |-> <<>>, cards_to_remove |-> <<>>,
         boxes |-> [b \in 1..Len(bxs) |-> in_box(bxs[b])]]

\* every result row is unpacked into box, row, section, sleeve, card before
\* the loop body runs: a row of another length raises ValueError
\* boxes is the store the call leaves: the function reads card.quantity
\* and writes its own two lists only
find_card_location(bxs, tcg_id, needed_quantity) ==
    LET scan == IF query_result(bxs, tcg_id) # <<>> /\ QueryEntities # UnpackTargets
                THEN [raised |-> "ValueError", locations |-> <<>>,
                      cards_to_remove |-> <<>>]
                ELSE Collect(query_result(bxs, tcg_id), needed_quantity, 0, <<>>, <<>>)
    IN  [raised |-> scan.raised, locations |-> scan.locations,
         cards_to_remove |-> scan.cards_to_remove, boxes |-> bxs]

\* session.delete is given the dict {'card': ..., 'quantity_to_remove': ...},
\* not a mapped object: the first entry raises and nothing is committed
remove_cards(bxs, cards_to_remove) ==
    IF cards_to_remove = <<>>
    THEN [raised |-> "", boxes |-> bxs]
    ELSE [raised |-> "UnmappedInstanceError", boxes |-> bxs]

RECURSIVE SumRemoved(_)
SumRemoved(cards_to_remove) ==
    IF cards_to_remove = <<>> THEN 0
    ELSE Head(cards_to_remove).quantity_to_remove + SumRemoved(Tail(cards_to_remove))

\* one order row: find_card_location, its ValueError caught by the row's
\* except clause, then remove_cards on what was gathered
match_order_from_csv(bxs, tcg_id, quantity) ==
    LET found == find_card_location(bxs, tcg_id, quantity)
        to_remove_list == IF found.raised = "" /\ found.locations # <<>>
                          THEN found.cards_to_remove ELSE <<>>
        removed == remove_cards(found.boxes, to_remove_list)
    IN  [boxes |-> removed.boxes,
         collected |-> SumRemoved(to_remove_list),
         result |-> IF found.raised # "" THEN found.raised
                    ELSE IF removed.raised # "" THEN removed.raised ELSE "ok"]

----------------------------------------------------------------------------
(* The state machine *)

Store == [boxes |-> boxes, orphan_rows |-> orphan_rows, next_card_id |-> next_card_id]

EmptyStore == [boxes |-> <<>>, orphan_rows |-> <<>>, next_card_id |-> 1]

\* the store after upload_from_csv has inserted k rows of 12 cards of item
\* 1001 into a database that held the first box only: insert_card fills the
\* sections of the box in order, one record each
UploadedSection(id, k) ==
    IF id <= k
    THEN [card_count |-> 12, max_cards |-> Section_max_cards,
          current_quantity |-> 12,
          cards |-> <<[id |-> id, section_id |-> id, tcg_id |-> 1001,
                       quantity |-> 12, capacity |-> Card_capacity]>>]
    ELSE NewSection

Uploaded(k) ==
    [boxes |-> << [Box__init__ EXCEPT !.rows =
                      [r \in 1..Len(@) |->
                          [@[r] EXCEPT !.sections =
                              [s \in 1..Len(@) |->
                                  UploadedSection((r - 1) * Len(@) + s, k)]]]] >>,
     orphan_rows |-> <<>>,
     next_card_id |-> k + 1]

InitialStores == {EmptyStore} \cup {Uploaded(k) : k \in PreFilled}

NoOp ==
    [name |-> "none", tcg_id |-> 0, quantity |-> 0, result |-> "",
     placed |-> 0, changed |-> FALSE, new_boxes |-> 0,
     available |-> 0, collected |-> 0,
     was_empty |-> FALSE, chosen |-> 0, first_fit |-> 0, residual |-> 0,
     records |-> <<>>, card_count_added |-> 0, current_quantity_added |-> 0,
     round_trip |-> FALSE]

\* no match_order_from_csv is under way
NoPending ==
    [active |-> FALSE, to_remove_list |-> <<>>, output |-> <<>>,
     stock_before |-> [t \in TcgIds |-> 0]]

\* the concurrent processes
Processes == {1, 2}

Idle == [pc |-> "idle", tcg_id |-> 0, quantity |-> 0, created |-> FALSE,
         path |-> <<>>, seen |-> NewSection, view |-> <<>>]

NoSessions == [p \in Processes |-> Idle]

\* quantity held by the card records created since next_card_id was from_id
Placed(bxs, from_id) ==
    SumOfSeq([b \in 1..Len(bxs) |->
        SumOfSeq([r \in 1..Len(bxs[b].rows) |->
            SumOfSeq([s \in 1..Len(bxs[b].rows[r].sections) |->
                SumQuantity(SelectSeq(bxs[b].rows[r].sections[s].cards,
                                      LAMBDA c : c.id >= from_id))])])])

\* room left in a section: its maximum less the quantities it holds
Residual(section) == section.max_cards - actual_quantity(section)

\* id of the first section, in id order, with room for at least one unit;
\* 0 when there is none
FirstFit(bxs) ==
    LET sections == SectionsOfBoxes(bxs)
        fits == { i \in 1..Len(sections) : Residual(sections[i]) >= 1 }
    IN  IF fits = {} THEN 0 ELSE CHOOSE i \in fits : \A j \in fits : i <= j

\* <<section_id, quantity>> of the card records created since next_card_id
\* was from_id, in id order of their sections
RecordsSince(bxs, from_id) ==
    LET created == SelectSeq(AllCards(bxs), LAMBDA c : c.id >= from_id)
    IN  [i \in 1..Len(created) |-> <<created[i].section_id, created[i].quantity>>]

Init ==
    /\ \E st \in InitialStores :
        /\ boxes = st.boxes
        /\ orphan_rows = st.orphan_rows
        /\ next_card_id = st.next_card_id
    /\ op = NoOp
    /\ nops = 0
    /\ total_boxes = 0
    /\ location = <<>>
    /\ pending = NoPending
    /\ sessions = NoSessions

\* __main__ of inv_manager.py: the first box of an empty database
MainFirstBox ==
    /\ boxes = <<>>
    /\ ~pending.active
    /\ boxes' = <<Box__init__>>
    /\ op' = [NoOp EXCEPT !.name = "main", !.result = "ok",
                          !.changed = TRUE, !.new_boxes = 1]
    /\ UNCHANGED <<orphan_rows, next_card_id, nops, total_boxes, location, pending, sessions>>

InsertCard ==
    /\ nops < MaxOps
    /\ ~pending.active
    /\ \E loc \in {locate_insertion_point(boxes)},
          first_fit \in {FirstFit(boxes)},
          was_empty \in {AllCards(boxes) = <<>>} :
       \E tcg_id \in TcgIds, quantity \in Quantities, commit_ok \in BOOLEAN :
       \E st \in {insert_card(Store, tcg_id, quantity, commit_ok)} :
        LET b == loc.path[1]
            r == loc.path[2]
            s == loc.path[3]
            before == loc.boxes[b].rows[r].sections[s]
            after == st.boxes[b].rows[r].sections[s]
        IN  /\ boxes' = st.boxes
            /\ orphan_rows' = st.orphan_rows
            /\ next_card_id' = st.next_card_id
            /\ op' = [NoOp EXCEPT
                        !.name = "insert_card",
                        !.tcg_id = tcg_id,
                        !.quantity = quantity,
                        !.result = IF st.ok THEN "ok" ELSE "failed",
                        !.placed = Placed(st.boxes, next_card_id),
                        !.changed = (st.boxes # boxes),
                        !.new_boxes = Len(st.boxes) - Len(boxes),
                        !.available = Stock(boxes, tcg_id),
                        !.was_empty = was_empty,
                        !.chosen = SectionId(loc.boxes, b, r, s),
                        !.first_fit = first_fit,
                        !.residual = Residual(before),
                        !.records = RecordsSince(st.boxes, next_card_id),
                        !.card_count_added = after.card_count - before.card_count,
                        !.current_quantity_added =
                            after.current_quantity - before.current_quantity]
    /\ nops' = nops + 1
    /\ UNCHANGED <<total_boxes, location, pending, sessions>>

UpdateCardQuantity ==
    /\ nops < MaxOps
    /\ \E tcg_id \in TcgIds, additional_quantity \in Additional :
        \E r \in {update_card_quantity(Store, tcg_id, additional_quantity)} :
            /\ boxes' = r.boxes
            /\ op' = [NoOp EXCEPT
                        !.name = "update_card_quantity",
                        !.tcg_id = tcg_id,
                        !.quantity = additional_quantity,
                        !.result = r.result,
                        !.changed = (r.boxes # boxes),
                        !.available = Stock(boxes, tcg_id)]
    /\ nops' = nops + 1
    /\ UNCHANGED <<orphan_rows, next_card_id, total_boxes, location, pending, sessions>>

MtgInsertCard ==
    /\ nops < MaxOps
    /\ \E tcg_id \in TcgIds, quantity \in Quantities :
        \E r \in {mtg_insert_card(boxes, tcg_id, quantity)} :
            /\ boxes' = r.boxes
            /\ op' = [NoOp EXCEPT
                        !.name = "mtg_insert_card",
                        !.tcg_id = tcg_id,
                        !.quantity = quantity,
                        !.result = r.result,
                        !.changed = (r.boxes # boxes)]
    /\ nops' = nops + 1
    /\ UNCHANGED <<orphan_rows, next_card_id, total_boxes, location, pending, sessions>>

MatchOrder ==
    /\ nops < MaxOps
    /\ \E tcg_id \in TcgIds, quantity \in Needed :
        \E r \in {match_order_from_csv(boxes, tcg_id, quantity)} :
            /\ boxes' = r.boxes
            /\ op' = [NoOp EXCEPT
                        !.name = "match_order_from_csv",
                        !.tcg_id = tcg_id,
                        !.quantity = quantity,
                        !.result = r.result,
                        !.changed = (r.boxes # boxes),
                        !.available = Stock(boxes, tcg_id),
                        !.collected = r.collected,
                        !.round_trip = /\ op.name = "insert_card"
                                       /\ op.tcg_id = tcg_id
                                       /\ op.quantity = quantity
                                       /\ op.available = 0]
    /\ nops' = nops + 1
    /\ UNCHANGED <<orphan_rows, next_card_id, total_boxes, location, pending, sessions>>

Next ==
    \/ MainFirstBox
    \/ InsertCard
    \/ UpdateCardQuantity
    \/ MtgInsertCard
    \/ MatchOrder

Spec == Init /\ [][Next]_vars

(* calculate_box_location on its own: the ordinal is drawn at the start *)

InitAddr ==
    /\ boxes = <<>>
    /\ orphan_rows = <<>>
    /\ next_card_id = 1
    /\ op = NoOp
    /\ nops = 0
    /\ total_boxes \in 0..MaxOrdinal
    /\ location = <<>>
    /\ pending = NoPending
    /\ sessions = NoSessions

CalculateBoxLocation ==
    /\ location = <<>>
    /\ location' = calculate_box_location(total_boxes)
    /\ UNCHANGED <<boxes, orphan_rows, next_card_id, op, nops, total_boxes, pending, sessions>>

NextAddr == CalculateBoxLocation

SpecAddr == InitAddr /\ [][NextAddr]_vars

(* match_order_from_csv step by step: one find_card_location per order row, *)
(* then remove_cards on everything gathered                                 *)

FindCardLocation ==
    /\ nops < MaxOps
    /\ \E tcg_id \in TcgIds, quantity \in Needed :
        \E found \in {find_card_location(boxes, tcg_id, quantity)} :
            /\ boxes' = found.boxes
            /\ pending' =
                 LET stock_before == IF pending.active THEN pending.stock_before
                                     ELSE [t \in TcgIds |-> Stock(boxes, t)]
                 IN  IF found.raised = "" /\ found.locations # <<>>
                     THEN [active |-> TRUE,
                           to_remove_list |->
                               pending.to_remove_list \o found.cards_to_remove,
                           output |-> Append(pending.output, found.locations),
                           stock_before |-> stock_before]
                     ELSE [pending EXCEPT !.active = TRUE,
                                          !.stock_before = stock_before]
            /\ op' = [NoOp EXCEPT
                        !.name = "find_card_location",
                        !.tcg_id = tcg_id,
                        !.quantity = quantity,
                        !.result = IF found.raised # "" THEN found.raised ELSE "ok",
                        !.changed = (found.boxes # boxes),
                        !.available = Stock(boxes, tcg_id),
                        !.collected = SumRemoved(found.cards_to_remove)]
    /\ nops' = nops + 1
    /\ UNCHANGED <<orphan_rows, next_card_id, total_boxes, location, sessions>>

RemoveCards ==
    /\ pending.active
    /\ \E removed \in {remove_cards(boxes, pending.to_remove_list)} :
        /\ boxes' = removed.boxes
        /\ op' = [NoOp EXCEPT
                    !.name = "remove_cards",
                    !.result = IF removed.raised # "" THEN removed.raised ELSE "ok",
                    !.changed = (removed.boxes # boxes),
                    !.collected = SumRemoved(pending.to_remove_list)]
    /\ pending' = NoPending
    /\ UNCHANGED <<orphan_rows, next_card_id, nops, total_boxes, location, sessions>>

NextScan ==
    \/ MainFirstBox
    \/ InsertCard
    \/ FindCardLocation
    \/ RemoveCards

SpecScan == Init /\ [][NextScan]_vars

(* Two processes run insert_card of inv_manager.py against the same        *)
(* database, each with its own session.  A session keeps the Section it    *)
(* loaded in locate_insertion_point; a box it flushed stays in its own     *)
(* transaction, which holds the write lock of the database, until commit.  *)

HoldsLock(q) == sessions[q].pc = "located" /\ sessions[q].created

LockFree(p) == \A q \in Processes \ {p} : ~HoldsLock(q)

\* section = locate_insertion_point(...): the read step
LocateInsertionPoint(p) ==
    /\ sessions[p].pc = "idle"
    /\ \E tcg_id \in TcgIds, quantity \in Quantities :
       \E loc \in {locate_insertion_point(boxes)} :
        LET created == Len(loc.boxes) > Len(boxes)
            b == loc.path[1]
            r == loc.path[2]
            s == loc.path[3]
        IN  /\ created => LockFree(p)
            /\ sessions' = [sessions EXCEPT ![p] =
                    [pc |-> "located", tcg_id |-> tcg_id, quantity |-> quantity,
                     created |-> created, path |-> loc.path,
                     seen |-> loc.boxes[b].rows[r].sections[s],
                     view |-> IF created THEN loc.boxes ELSE <<>>]]
            /\ orphan_rows' = orphan_rows \o loc.orphans
    /\ UNCHANGED <<boxes, next_card_id, op, nops, total_boxes, location, pending>>

\* section.add_card(new_card) on the Section object the session holds, and
\* the first session.commit(): the card row is inserted and card_count is
\* written as the session computed it; when add_card refuses the card, a
\* box the session flushed is committed by the session.commit() that ends
\* upload_from_csv
AddCardCommit(p) ==
    /\ sessions[p].pc = "located"
    /\ LockFree(p)
    /\ LET me == sessions[p]
           b == me.path[1]
           r == me.path[2]
           s == me.path[3]
           base == IF me.created THEN me.view ELSE boxes
           new_card == [id |-> next_card_id,
                        section_id |-> SectionId(base, b, r, s),
                        tcg_id |-> me.tcg_id, quantity |-> me.quantity,
                        capacity |-> Card_capacity]
           added == add_card(me.seen, new_card)
       IN  IF added.ok
           THEN /\ boxes' = [base EXCEPT ![b].rows[r].sections[s] =
                                [@ EXCEPT !.cards = Append(@, new_card),
                                          !.card_count = added.section.card_count]]
                /\ next_card_id' = next_card_id + 1
                /\ sessions' = [sessions EXCEPT ![p].pc = "added"]
           ELSE /\ boxes' = base
                /\ UNCHANGED next_card_id
                /\ sessions' = [sessions EXCEPT ![p].pc = "done"]
    /\ UNCHANGED <<orphan_rows, op, nops, total_boxes, location, pending>>

\* section.current_quantity += quantity on the reloaded section, and the
\* second session.commit() with its rollback
CommitQuantity(p) ==
    /\ sessions[p].pc = "added"
    /\ LockFree(p)
    /\ \E commit_ok \in BOOLEAN :
        LET b == sessions[p].path[1]
            r == sessions[p].path[2]
            s == sessions[p].path[3]
        IN  boxes' = [boxes EXCEPT ![b].rows[r].sections[s].current_quantity =
                         IF commit_ok THEN @ + sessions[p].quantity ELSE @]
    /\ sessions' = [sessions EXCEPT ![p].pc = "done"]
    /\ UNCHANGED <<orphan_rows, next_card_id, op, nops, total_boxes, location, pending>>

NextConc ==
    \E p \in Processes :
        \/ LocateInsertionPoint(p)
        \/ AddCardCommit(p)
        \/ CommitQuantity(p)

SpecConc == Init /\ [][NextConc]_vars

----------------------------------------------------------------------------
(* Properties *)

StoredSections == SectionsOfBoxes(boxes)

IsInsert == op.name = "insert_card"
IsMatch == op.name = "match_order_from_csv"

\* C1: an insert_card of quantity Q >= 1 creates card records whose
\* quantities sum to Q, also when Q is above the section maximum of 12.
C1_ConservationUnderSpillover ==
    (IsInsert /\ op.quantity >= 1) => op.placed = op.quantity

\* C2: in every section of the store the quantities of its card records sum
\* to at most the section's max_cards, whatever insert_card and
\* update_card_quantity calls came before.
C2_CapacityInvariant ==
    \A i \in 1..Len(StoredSections) :
        actual_quantity(StoredSections[i]) <= StoredSections[i].max_cards

\* C2 witness: an insert_card has just put a record into a section that
\* already held one, and the section is now exactly at its maximum.
C2_Witness ==
    /\ IsInsert /\ op.result = "ok"
    /\ \E i \in 1..Len(StoredSections) :
        /\ Len(StoredSections[i].cards) >= 2
        /\ actual_quantity(StoredSections[i]) = StoredSections[i].max_cards

\* C3: a fulfillment of N >= 1 units of an item with at least N in stock
\* collects removal amounts that sum to N and lowers the stock of the item
\* by exactly N.
C3_ConservationUnderRetrieval ==
    (IsMatch /\ op.quantity >= 1 /\ op.available >= op.quantity)
        => /\ op.collected = op.quantity
           /\ Stock(boxes, op.tcg_id) = op.available - op.quantity

\* C4: a fulfillment of N units of an item with some stock, but less than N,
\* raises no error, collects exactly what is in stock and leaves no stock.
C4_PartialFulfillment ==
    (IsMatch /\ op.available >= 1 /\ op.available < op.quantity)
        => /\ op.result = "ok"
           /\ op.collected = op.available
           /\ Stock(boxes, op.tcg_id) = 0

\* C5 as stated: calculate_box_location(0) is rack 1, shelf 1, column 1,
\* slot 1 and calculate_box_location(12) is rack 2, shelf 1, column 1, slot 1.
C5_AddressAsStated ==
    location # <<>> =>
        /\ total_boxes = 0 => location = <<1, 1, 1, 1>>
        /\ total_boxes = 12 => location = <<2, 1, 1, 1>>

\* C5 amended: calculate_box_location(0) is rack 1, shelf 1, column 1,
\* slot 1 and calculate_box_location(12) is rack 1, shelf 2, column 1,
\* slot 1; rack 2, shelf 1, column 1, slot 1 is the address of ordinal 36.
C5_AddressOfNewBox ==
    location # <<>> =>
        /\ total_boxes = 0 => location = <<1, 1, 1, 1>>
        /\ total_boxes = 12 => location = <<1, 2, 1, 1>>
        /\ total_boxes = 36 => location = <<2, 1, 1, 1>>

\* C5 witness: the address of ordinal 12 has been computed.
C5_Witness == location # <<>> /\ total_boxes = 12

\* C6: after insert_card, update_card_quantity and the removal of an order,
\* every section has current_quantity equal to the sum of its records'
\* quantities and card_count equal to the number of its records.
C6_CounterConsistency ==
    op.name \in {"insert_card", "update_card_quantity", "match_order_from_csv"} =>
        \A i \in 1..Len(StoredSections) :
            /\ StoredSections[i].current_quantity = actual_quantity(StoredSections[i])
            /\ StoredSections[i].card_count = Len(StoredSections[i].cards)

RowWithinFanOut(row) ==
    /\ Len(row.sections) <= Row_max_sections
    /\ row.section_count = Len(row.sections)

\* C7: no box has more than 5 rows, no row (in a box or left without one)
\* has more than 10 sections, and row_count and section_count are the
\* numbers of children.
C7_FanOut ==
    /\ \A b \in 1..Len(boxes) :
        /\ Len(boxes[b].rows) <= Box_max_rows
        /\ boxes[b].row_count = Len(boxes[b].rows)
        /\ \A r \in 1..Len(boxes[b].rows) : RowWithinFanOut(boxes[b].rows[r])
    /\ \A r \in 1..Len(orphan_rows) : RowWithinFanOut(orphan_rows[r])

\* C7 witness: insert_card found the last box full and created a new box,
\* next to a box that existed before.
C7_Witness ==
    /\ IsInsert /\ op.new_boxes = 1
    /\ Len(boxes) >= 2
    /\ Len(orphan_rows) >= 1

\* C8: no card record has a quantity above its capacity.
C8_PerRecordCeiling ==
    \A i \in 1..Len(AllCards(boxes)) :
        AllCards(boxes)[i].quantity <= AllCards(boxes)[i].capacity

\* C9: insert_card with a quantity <= 0 is rejected and changes nothing: no
\* box, row, section or card record is created and no counter changes.
C9_InvalidQuantityRejected ==
    (IsInsert /\ op.quantity <= 0)
        => (op.result = "failed" /\ ~op.changed /\ op.new_boxes = 0)

\* C10: insert_card either places the full quantity, or fails and leaves the
\* store as it was.
C10_AtomicFailure ==
    IsInsert =>
        \/ (op.result = "ok" /\ op.placed = op.quantity)
        \/ (op.result = "failed" /\ ~op.changed /\ op.new_boxes = 0)


\* C14: update_card_quantity(tcg_id, a) with a >= 1 on an item that has a
\* record raises the total stored quantity of the item by exactly a, in
\* place or through a spillover record.
C14_MergeConservesQuantity ==
    (op.name = "update_card_quantity" /\ op.quantity >= 1 /\ op.result # "not found")
        => Stock(boxes, op.tcg_id) = op.available + op.quantity

\* C15: when insert_card has created a box next to boxes that existed
\* before, every section of those earlier boxes is full: its quantities sum
\* to its max_cards.
C15_NewBoxOnlyWhenFull ==
    (IsInsert /\ op.new_boxes = 1 /\ Len(boxes) >= 2)
        => \A b \in 1..(Len(boxes) - 1) :
             \A r \in 1..Len(boxes[b].rows) :
               \A s \in 1..Len(boxes[b].rows[r].sections) :
                 actual_quantity(boxes[b].rows[r].sections[s])
                     = boxes[b].rows[r].sections[s].max_cards

\* C16: every box has exactly 5 rows of exactly 10 sections, and no row or
\* section has been created that belongs to no parent.
C16_EagerPreAllocation ==
    /\ \A b \in 1..Len(boxes) :
        /\ Len(boxes[b].rows) = 5
        /\ \A r \in 1..Len(boxes[b].rows) : Len(boxes[b].rows[r].sections) = 10
    /\ orphan_rows = <<>>

\* C17: the address computed for ordinal n has rack >= 1, shelf in 1..3,
\* column in 1..4, slot in 1..3 and
\* (rack-1)*36 + (shelf-1)*12 + (column-1)*3 + (slot-1) = n; no other ordinal
\* gets the same address.
C17_FixedRadix ==
    location # <<>> =>
        /\ location[1] >= 1
        /\ location[2] \in 1..3
        /\ location[3] \in 1..4
        /\ location[4] \in 1..3
        /\ (location[1] - 1) * 36 + (location[2] - 1) * 12
               + (location[3] - 1) * 3 + (location[4] - 1) = total_boxes
        /\ \A m \in 0..MaxOrdinal :
               m # total_boxes => calculate_box_location(m) # location

\* C17 witness: the address of an ordinal of the second rack, not the first
\* of its shelf or column, has been computed.
C17_Witness ==
    /\ location # <<>>
    /\ total_boxes = 53
    /\ location = <<2, 2, 2, 3>>


Min(a, b) == IF a <= b THEN a ELSE b

\* C11: the first record an insertion of Q >= 1 creates holds
\* min(residual capacity of the chosen section, Q, per-record maximum), and
\* inserting 15 into an empty hierarchy makes exactly two records, 12 in the
\* first section and 3 in the second.
C11_SplitRule ==
    (IsInsert /\ op.quantity >= 1) =>
        /\ op.records # <<>>
        /\ op.records[1] = <<op.chosen, Min(op.residual, Min(op.quantity, Card_capacity))>>
        /\ (op.was_empty /\ op.quantity = 15) => op.records = << <<1, 12>>, <<2, 3>> >>

\* C12: the section an insertion chooses is the first one, in id order over
\* all boxes, that has room for at least one unit.
C12_FirstFit ==
    (IsInsert /\ op.first_fit # 0) => op.chosen = op.first_fit

\* C13: fulfilling Q of an item right after Q >= 1 of it was inserted into a
\* store with no stock of it leaves no stock of the item, and the counts of
\* the location report sum to Q.
C13_RoundTrip ==
    (IsMatch /\ op.round_trip) =>
        /\ Stock(boxes, op.tcg_id) = 0
        /\ op.collected = op.quantity

\* C19: after insert_card has returned, the new record and both counter
\* updates of its section are all there, or none of them is.
C19_AllOrNothing ==
    IsInsert =>
        \/ /\ Len(op.records) = 1
           /\ op.card_count_added = op.quantity
           /\ op.current_quantity_added = op.quantity
        \/ /\ op.records = <<>>
           /\ op.card_count_added = 0
           /\ op.current_quantity_added = 0


\* C18: a find_card_location step changes no card record, no quantity and
\* no counter of the store, and while an order is being matched the store
\* changes only in the remove_cards step that ends it.
C18_ScanReadOnly ==
    [][ /\ (op'.name = "find_card_location" /\ nops' = nops + 1)
            => (boxes' = boxes /\ orphan_rows' = orphan_rows
                /\ next_card_id' = next_card_id)
        /\ ((pending.active \/ pending'.active) /\ boxes' # boxes)
            => (op'.name = "remove_cards" /\ pending.active /\ ~pending'.active)
      ]_vars

\* C18 witness: find_card_location has just run for an item the store holds
\* enough of, and the order is waiting for remove_cards.
C18_Witness ==
    /\ op.name = "find_card_location"
    /\ pending.active
    /\ op.available >= op.quantity


\* C20: while insert_card calls of two processes are interleaved between
\* their read step and their write step, the card quantities of every
\* section of the store sum to at most the section's max_cards.
C20_NoOverfill ==
    (\E p \in Processes : sessions[p].pc # "idle") =>
        \A b \in 1..Len(boxes) :
            \A r \in 1..Len(boxes[b].rows) :
                \A s \in 1..Len(boxes[b].rows[r].sections) :
                    SumQuantity(boxes[b].rows[r].sections[s].cards)
                        <= boxes[b].rows[r].sections[s].max_cards


\* C21: while an order batch is being matched, the amounts collected from
\* any card record, summed over the order rows matched so far, are at most
\* the record's quantity, and the amount collected for an item is at most
\* the stock of the item when the batch began.
C21_NoDoubleAllocation ==
    pending.active =>
        /\ \A i \in 1..Len(AllCards(boxes)) :
             SumRemoved(SelectSeq(pending.to_remove_list,
                                  LAMBDA e : e.card.id = AllCards(boxes)[i].id))
                 <= AllCards(boxes)[i].quantity
        /\ \A t \in TcgIds :
             SumRemoved(SelectSeq(pending.to_remove_list,
                                  LAMBDA e : e.card.tcg_id = t))
                 <= pending.stock_before[t]


\* every card record of the store holds a quantity between 1 and 12, as it
\* does when every inserted quantity was between 1 and 12
ValidQuantitiesOnly ==
    \A b \in 1..Len(boxes) :
        \A r \in 1..Len(boxes[b].rows) :
            \A s \in 1..Len(boxes[b].rows[r].sections) :
                \A c \in 1..Len(boxes[b].rows[r].sections[s].cards) :
                    boxes[b].rows[r].sections[s].cards[c].quantity
                        \in 1..Section_max_cards

\* C22: when every inserted quantity is between 1 and 12, every section
\* holds at most one card record, and the section an accepted insert_card
\* was given held nothing before the call.
C22_OneRecordPerSection ==
    ValidQuantitiesOnly =>
        /\ \A i \in 1..Len(StoredSections) : Len(StoredSections[i].cards) <= 1
        /\ (IsInsert /\ op.result = "ok") => op.residual = Section_max_cards

\* C22 witness: with valid quantities only, an insert_card has passed over an
\* earlier section that still had room and put its record into a later,
\* empty one.
C22_Witness ==
    /\ ValidQuantitiesOnly
    /\ IsInsert /\ op.result = "ok"
    /\ op.first_fit # 0
    /\ op.first_fit < op.chosen
    /\ Len(StoredSections[op.first_fit].cards) = 1

====
